---- MODULE Spec2Model ----
(***************************************************************************)
(* blokr: suppression of user input events without an overlay.             *)
(*                                                                         *)
(* Handle variant (blokr.ts v0.3: the blokr factory, class Blokr) on top   *)
(* of the interceptor (lock.ts: class Lock, a registry of filters and one  *)
(* capture-phase listener per event type).                                 *)
(*                                                                         *)
(* Singleton variant (blokr.ts v0.2: one Blokr object with a counter, a    *)
(* stored timeout and one timer) on top of the older Lock with its         *)
(* _locked flag.                                                           *)
(*                                                                         *)
(* JavaScript is single threaded: every call (blokr(), lock(), unlock(),   *)
(* a timer callback, the listener for one event) runs to completion, so    *)
(* each is one action.                                                     *)
(***************************************************************************)
EXTENDS Integers, Sequences, FiniteSets, TLC

(***************************************************************************)
(* Bounds of the model.                                                    *)
(***************************************************************************)
\* Elements of the document: 1 is the root, Parent(e) = e \div 2.
NumElements == 4
\* lock() is called with timeout in -1..MaxTimeout (or with none).
MaxTimeout == 1
\* Live objects of one kind (handles per key, filters and timers per handle).
MaxObjects == 2
\* The singleton's lock() is called while its counter is below MaxCount.
MaxCount == 2

(***************************************************************************)
(* The host: DOM nodes, optional values, event types.                      *)
(***************************************************************************)
Elements == 1..NumElements
\* The document node: an event target that is not an Element.
Document == NumElements + 1
\* The global object (window), the WeakMap key of the handle without target.
GlobalThis == NumElements + 2
Nodes == Elements \cup {Document}
\* The elements the application acquires handles for: element 2 (it has the
\* parent 1, the sibling 3 and the child 4) and its sibling 3.
Targets == {2, 3}

\* undefined, and a defined value x
Undefined == << >>
Some(x) == <<x>>
Get(o) == o[1]
Opt(S) == {Undefined} \cup {Some(x) : x \in S}

Parent(e) == IF e = 1 THEN Document ELSE e \div 2

\* Node.contains(other): other is T or a descendant of T
RECURSIVE Contains(_, _)
Contains(T, E) ==
    IF E = T THEN TRUE
    ELSE IF E \notin Elements THEN FALSE
    ELSE Contains(T, Parent(E))

\* The properties of globalThis the code asks for, in a browser and in a
\* host that has no events.
BrowserGlobal == {"addEventListener"}
BareGlobal == {}

\* evt.target instanceof Element
InstanceofElement(n) == n \in Elements

eventNames == <<"contextmenu", "keydown", "mousedown", "touchmove", "touchstart", "wheel">>
\* Event types the application may see that are not in eventNames.
OtherEventTypes == {"click"}
Range(s) == {s[i] : i \in DOMAIN s}
EventTypes == Range(eventNames) \cup OtherEventTypes

Scopes == {"inside", "outside", "self"}
Timeouts == (0 - 1)..MaxTimeout
OptionsSet == [scope : Opt(Scopes), timeout : Opt(Timeouts)]

VARIABLES
    blokrs,     \* WeakMap<Element | globalThis, Blokr>: key -> handle
    handles,    \* the Blokr objects: handle -> [_target, _timerId, _filter]
    filters,    \* Lock._filters: a Set, kept in insertion order
    listeners,  \* the listeners the Lock constructor installed on globalThis
    timers,     \* the host's pending timers: timer id -> [rem, self]
    issued,     \* history: key -> the handles blokr() has returned for it
    singleton,  \* the singleton variant: [blokr, lock, timers]
    last        \* the last call and what it returned

vars == <<blokrs, handles, filters, listeners, timers, issued, singleton, last>>

(***************************************************************************)
(* lock.ts: class Lock, the interceptor.                                   *)
(*                                                                         *)
(* A filter is a closure; it is modelled by what it captured (the handle   *)
(* `this` and the local `scope`) plus n, which tells apart two closures    *)
(* that captured the same values.                                          *)
(***************************************************************************)
\* Mutant: register() replaces the registry by the new filter.
Lock_register_replace(fs, filter) ==
    <<filter>>

\* Mutant: register() appends to an array.
Lock_register_push(fs, filter) ==
    Append(fs, filter)

\* Set.prototype.add: a value already in the set is not added again
Lock_register(fs, filter) ==
    IF filter \in Range(fs) THEN fs ELSE Append(fs, filter)

\* Set.prototype.delete
Lock_unregister(fs, filter) ==
    SelectSeq(fs, LAMBDA x : x # filter)

\* Mutant: the closure tests the scope before it tests for a target.
FilterApply_scope_first(filter, hs, eventTarget) ==
    LET target == hs[filter.self]._target IN
    IF filter.scope = "self"
    THEN target = Some(eventTarget)
    ELSE IF target # Undefined
         THEN LET contains == Contains(Get(target), eventTarget) IN
              IF filter.scope = "outside" THEN ~contains ELSE contains
         ELSE TRUE

\* Mutant: the closure asks eventTarget.contains(this._target).
FilterApply_swapped(filter, hs, eventTarget) ==
    LET target == hs[filter.self]._target IN
    IF target # Undefined
    THEN IF filter.scope = "self"
         THEN Get(target) = eventTarget
         ELSE LET contains == Contains(eventTarget, Get(target)) IN
              IF filter.scope = "outside" THEN ~contains ELSE contains
    ELSE TRUE

\* Mutant: the closure does not negate for 'outside'.
FilterApply_no_outside(filter, hs, eventTarget) ==
    LET target == hs[filter.self]._target IN
    IF target # Undefined
    THEN IF filter.scope = "self"
         THEN Get(target) = eventTarget
         ELSE Contains(Get(target), eventTarget)
    ELSE TRUE

\* Mutant: the closure treats 'self' as 'inside'.
FilterApply_self_as_inside(filter, hs, eventTarget) ==
    LET target == hs[filter.self]._target IN
    IF target # Undefined
    THEN LET contains == Contains(Get(target), eventTarget) IN
         IF filter.scope = "outside" THEN ~contains ELSE contains
    ELSE TRUE

\* The closure lock() builds, applied to eventTarget.
FilterApply(filter, hs, eventTarget) ==
    LET target == hs[filter.self]._target IN
    IF target # Undefined
    THEN IF filter.scope = "self"
         THEN Get(target) = eventTarget
         ELSE LET contains == Contains(Get(target), eventTarget) IN
              IF filter.scope = "outside" THEN ~contains ELSE contains
    ELSE TRUE

\* An event as the listener sees it: isTrusted is true for an event the user
\* caused and false for one a script dispatched.
NewEvent(type, target, isTrusted) ==
    [type |-> type, target |-> target, isTrusted |-> isTrusted,
     stopImmediatePropagation |-> 0, stopPropagation |-> 0, preventDefault |-> 0]

\* The body of the listener's if: the three calls on the event.
Suppress(evt) ==
    [evt EXCEPT !.stopImmediatePropagation = @ + 1,
                !.stopPropagation = @ + 1,
                !.preventDefault = @ + 1]

RECURSIVE ListenerLoop(_, _, _, _)

\* Mutant: the listener asks the first filter of the registry only.
ListenerLoop_first_only(fs, i, hs, evt) ==
    IF i > Len(fs) THEN evt
    ELSE IF FilterApply(fs[i], hs, evt.target) THEN Suppress(evt)
    ELSE evt

\* Mutant: the three calls are made outside the if, for the first filter of
\* the registry whatever it returns.
ListenerLoop_unconditional(fs, i, hs, evt) ==
    IF i > Len(fs) THEN evt
    ELSE Suppress(evt)

\* Mutant: the loop has no break.
ListenerLoop_no_break(fs, i, hs, evt) ==
    IF i > Len(fs) THEN evt
    ELSE IF FilterApply(fs[i], hs, evt.target)
         THEN ListenerLoop(fs, i + 1, hs, Suppress(evt))
         ELSE ListenerLoop(fs, i + 1, hs, evt)

\* Mutant: the predicate registered last decides.
ListenerLoop_last_decides(fs, i, hs, evt) ==
    IF fs = << >> THEN evt
    ELSE IF FilterApply(fs[Len(fs)], hs, evt.target) THEN Suppress(evt)
    ELSE evt

\* for (const filter of this._filters.values()) { if (filter(evt.target)) { ...; break; } }
ListenerLoop(fs, i, hs, evt) ==
    IF i > Len(fs) THEN evt
    ELSE IF FilterApply(fs[i], hs, evt.target) THEN Suppress(evt)
    ELSE ListenerLoop(fs, i + 1, hs, evt)

\* Mutant: the listener does not test evt.target instanceof Element.
Lock_listener_no_instanceof(fs, hs, evt) ==
    ListenerLoop(fs, 1, hs, evt)

Lock_listener(fs, hs, evt) ==
    IF InstanceofElement(evt.target) THEN ListenerLoop(fs, 1, hs, evt) ELSE evt

\* Mutant: eventNames has 'click' as well.
Lock_constructor_with_click(global) ==
    IF "addEventListener" \in global
    THEN [i \in 1..(Len(eventNames) + 1) |->
            [type |-> IF i <= Len(eventNames) THEN eventNames[i] ELSE "click",
             capture |-> TRUE, passive |-> FALSE]]
    ELSE << >>

\* Mutant: the listeners are added without capture: true.
Lock_constructor_bubble(global) ==
    IF "addEventListener" \in global
    THEN [i \in DOMAIN eventNames |->
            [type |-> eventNames[i], capture |-> FALSE, passive |-> FALSE]]
    ELSE << >>

\* Mutant: the constructor adds the listener for each name twice, for the
\* capture and for the bubble phase.
Lock_constructor_both_phases(global) ==
    IF "addEventListener" \in global
    THEN [i \in 1..(2 * Len(eventNames)) |->
            [type |-> eventNames[((i - 1) % Len(eventNames)) + 1],
             capture |-> i <= Len(eventNames), passive |-> FALSE]]
    ELSE << >>

\* Mutant: the constructor does not test for addEventListener.
Lock_constructor_unguarded(global) ==
    [i \in DOMAIN eventNames |->
        [type |-> eventNames[i], capture |-> TRUE, passive |-> FALSE]]

\* The constructor, global being the names of the properties of globalThis:
\* if ('addEventListener' in globalThis), one capture, non-passive listener
\* per event name; no listener otherwise.
Lock_constructor(global) ==
    IF "addEventListener" \in global
    THEN [i \in DOMAIN eventNames |->
            [type |-> eventNames[i], capture |-> TRUE, passive |-> FALSE]]
    ELSE << >>

(***************************************************************************)
(* The host's timers.  A timer id is an opaque truthy value; it is         *)
(* modelled by the handle whose lock() asked for it plus n, the least      *)
(* number that keeps it different from every id still pending or still     *)
(* held in a _timerId.  A pending timer is [rem, self, filter]: the time    *)
(* left, the handle whose unlock() its callback calls and, as history, the *)
(* filter installed by the lock() call that scheduled it.                  *)
(***************************************************************************)
setTimeout(ts, id, self, filter, delay) ==
    ts @@ (id :> [rem |-> delay, self |-> self, filter |-> filter])

\* clearTimeout: cancels the timer if it is pending, does nothing otherwise
clearTimeout(ts, id) ==
    [i \in DOMAIN ts \ {id} |-> ts[i]]

(***************************************************************************)
(* blokr.ts: class Blokr and the blokr factory.                            *)
(* st is the state the methods read and write:                             *)
(* [handles, timers, filters].                                             *)
(***************************************************************************)
Blokr_constructor(target) ==
    [_target |-> target, _timerId |-> Undefined, _filter |-> Undefined]

\* isLocked(): !!this._filter
Blokr_isLocked(b) == b._filter # Undefined

FreeFilterNs(self, scope, st) ==
    {n \in 1..MaxObjects :
        LET f == [self |-> self, scope |-> scope, n |-> n] IN
        /\ f \notin Range(st.filters)
        /\ \A h \in DOMAIN st.handles : st.handles[h]._filter # Some(f)}

FreeTimerNs(self, st) ==
    {n \in 1..MaxObjects :
        LET id == [self |-> self, n |-> n] IN
        /\ id \notin DOMAIN st.timers
        /\ \A h \in DOMAIN st.handles : st.handles[h]._timerId # Some(id)}

Least(S) == CHOOSE n \in S : \A m \in S : n <= m

\* Mutant: lock() does not read options.scope.
OptionScope_not_read(options) ==
    "inside"

OptionScope(options) ==
    IF options.scope # Undefined THEN Get(options.scope) ELSE "inside"

OptionTimeout(options) ==
    IF options.timeout # Undefined THEN Get(options.timeout) ELSE 0

\* Mutant: lock() sets _filter but does not register the filter.
Blokr_lock_body_no_register(self, options, st) ==
    LET scope == OptionScope(options)
        timeout == OptionTimeout(options)
        filter == [self |-> self, scope |-> scope,
                   n |-> Least(FreeFilterNs(self, scope, st))]
        id == [self |-> self, n |-> Least(FreeTimerNs(self, st))]
    IN [st |-> [handles |-> [st.handles EXCEPT ![self] =
                      [@ EXCEPT !._filter = Some(filter),
                                !._timerId = IF timeout > 0 THEN Some(id) ELSE @]],
                timers |-> IF timeout > 0
                           THEN setTimeout(st.timers, id, self, filter, timeout)
                           ELSE st.timers,
                filters |-> st.filters],
        ret |-> TRUE]

\* Mutant: lock() schedules the timer for every timeout but 0.
Blokr_lock_body_nonzero_timeout(self, options, st) ==
    LET scope == OptionScope(options)
        timeout == OptionTimeout(options)
        filter == [self |-> self, scope |-> scope,
                   n |-> Least(FreeFilterNs(self, scope, st))]
        id == [self |-> self, n |-> Least(FreeTimerNs(self, st))]
    IN [st |-> [handles |-> [st.handles EXCEPT ![self] =
                      [@ EXCEPT !._filter = Some(filter),
                                !._timerId = IF timeout # 0 THEN Some(id) ELSE @]],
                timers |-> IF timeout # 0
                           THEN setTimeout(st.timers, id, self, filter, timeout)
                           ELSE st.timers,
                filters |-> Lock_register(st.filters, filter)],
        ret |-> TRUE]

\* lock(options) past its guard: builds and registers the filter, schedules
\* the timer, returns true
Blokr_lock_body(self, options, st) ==
    LET scope == OptionScope(options)
        timeout == OptionTimeout(options)
        filter == [self |-> self, scope |-> scope,
                   n |-> Least(FreeFilterNs(self, scope, st))]
        id == [self |-> self, n |-> Least(FreeTimerNs(self, st))]
    IN [st |-> [handles |-> [st.handles EXCEPT ![self] =
                      [@ EXCEPT !._filter = Some(filter),
                                !._timerId = IF timeout > 0 THEN Some(id) ELSE @]],
                timers |-> IF timeout > 0
                           THEN setTimeout(st.timers, id, self, filter, timeout)
                           ELSE st.timers,
                filters |-> Lock_register(st.filters, filter)],
        ret |-> TRUE]

\* Mutant: lock() without its guard.
Blokr_lock_reentrant(self, options, st) ==
    Blokr_lock_body(self, options, st)

\* Mutant: lock() that tests isLocked() only after it has scheduled the timer.
Blokr_lock_late_guard(self, options, st) ==
    IF Blokr_isLocked(st.handles[self])
    THEN LET id == [self |-> self, n |-> Least(FreeTimerNs(self, st))]
             timeout == OptionTimeout(options)
         IN [st |-> IF timeout > 0
                    THEN [st EXCEPT
                            !.handles[self]._timerId = Some(id),
                            !.timers = setTimeout(st.timers, id, self,
                                           Get(st.handles[self]._filter), timeout)]
                    ELSE st,
             ret |-> FALSE]
    ELSE Blokr_lock_body(self, options, st)

\* Mutant: lock() builds and registers its filter before it tests isLocked().
Blokr_lock_registers_first(self, options, st) ==
    IF Blokr_isLocked(st.handles[self])
    THEN LET scope == OptionScope(options)
             filter == [self |-> self, scope |-> scope,
                        n |-> Least(FreeFilterNs(self, scope, st))]
         IN [st |-> [st EXCEPT !.filters = Lock_register(st.filters, filter)],
             ret |-> FALSE]
    ELSE Blokr_lock_body(self, options, st)

\* lock(options): the new state and the value returned
Blokr_lock(self, options, st) ==
    IF Blokr_isLocked(st.handles[self])
    THEN [st |-> st, ret |-> FALSE]
    ELSE Blokr_lock_body(self, options, st)

\* Mutant: unlock() that forgets the interceptor.
Blokr_unlock_no_unregister(self, st) ==
    LET b == st.handles[self] IN
    [handles |-> [st.handles EXCEPT ![self] =
                    [@ EXCEPT !._timerId = Undefined, !._filter = Undefined]],
     timers |-> IF b._timerId # Undefined
                THEN clearTimeout(st.timers, Get(b._timerId))
                ELSE st.timers,
     filters |-> st.filters]

\* Mutant: unlock() that drops its timer id without cancelling the timer.
Blokr_unlock_no_clear(self, st) ==
    LET b == st.handles[self] IN
    [handles |-> [st.handles EXCEPT ![self] =
                    [@ EXCEPT !._timerId = Undefined, !._filter = Undefined]],
     timers |-> st.timers,
     filters |-> IF b._filter # Undefined
                 THEN Lock_unregister(st.filters, Get(b._filter))
                 ELSE st.filters]

\* Mutant: unlock() deletes the filter registered last, not its own.
Blokr_unlock_pops_last(self, st) ==
    LET b == st.handles[self] IN
    [handles |-> [st.handles EXCEPT ![self] =
                    [@ EXCEPT !._timerId = Undefined, !._filter = Undefined]],
     timers |-> IF b._timerId # Undefined
                THEN clearTimeout(st.timers, Get(b._timerId))
                ELSE st.timers,
     filters |-> IF st.filters # << >>
                 THEN SubSeq(st.filters, 1, Len(st.filters) - 1)
                 ELSE st.filters]

\* Mutant: unlock() with an else between its two ifs, the filter first: the
\* timer is cleared only if the handle holds no filter.
Blokr_unlock_else_if(self, st) ==
    LET b == st.handles[self] IN
    IF b._filter # Undefined
    THEN [handles |-> [st.handles EXCEPT ![self] = [@ EXCEPT !._filter = Undefined]],
          timers |-> st.timers,
          filters |-> Lock_unregister(st.filters, Get(b._filter))]
    ELSE [handles |-> [st.handles EXCEPT ![self] = [@ EXCEPT !._timerId = Undefined]],
          timers |-> IF b._timerId # Undefined
                     THEN clearTimeout(st.timers, Get(b._timerId))
                     ELSE st.timers,
          filters |-> st.filters]

\* unlock()
Blokr_unlock(self, st) ==
    LET b == st.handles[self] IN
    [handles |-> [st.handles EXCEPT ![self] =
                    [@ EXCEPT !._timerId = Undefined, !._filter = Undefined]],
     timers |-> IF b._timerId # Undefined
                THEN clearTimeout(st.timers, Get(b._timerId))
                ELSE st.timers,
     filters |-> IF b._filter # Undefined
                 THEN Lock_unregister(st.filters, Get(b._filter))
                 ELSE st.filters]

\* target ?? globalThis
Key(target) == IF target # Undefined THEN Get(target) ELSE GlobalThis

Keys == Targets \cup {GlobalThis}

FreeHandleNs(key, hs) ==
    {n \in 1..MaxObjects : [key |-> key, n |-> n] \notin DOMAIN hs}

\* WeakMap.prototype.set
WeakMap_set(bs, key, value) ==
    [k \in DOMAIN bs \cup {key} |-> IF k = key THEN value ELSE bs[k]]

\* Mutant: the factory does not look into the cache.
blokr_no_cache(target, bs, hs) ==
    LET instance == [key |-> Key(target),
                     n |-> Least(FreeHandleNs(Key(target), hs))]
    IN [blokrs |-> WeakMap_set(bs, Key(target), instance),
        handles |-> hs @@ (instance :> Blokr_constructor(target)),
        ret |-> instance]

\* Mutant: the factory does not store the handle it creates.
blokr_no_set(target, bs, hs) ==
    IF Key(target) \in DOMAIN bs
    THEN [blokrs |-> bs, handles |-> hs, ret |-> bs[Key(target)]]
    ELSE LET instance == [key |-> Key(target),
                          n |-> Least(FreeHandleNs(Key(target), hs))]
         IN [blokrs |-> bs,
             handles |-> hs @@ (instance :> Blokr_constructor(target)),
             ret |-> instance]

\* blokr(target): the new cache, the new heap of handles and the handle returned
blokr(target, bs, hs) ==
    IF Key(target) \in DOMAIN bs
    THEN [blokrs |-> bs, handles |-> hs, ret |-> bs[Key(target)]]
    ELSE LET instance == [key |-> Key(target),
                          n |-> Least(FreeHandleNs(Key(target), hs))]
         IN [blokrs |-> WeakMap_set(bs, Key(target), instance),
             handles |-> hs @@ (instance :> Blokr_constructor(target)),
             ret |-> instance]

(***************************************************************************)
(* The singleton variant: class Blokr of v0.2 and its Lock.                *)
(* s is the state its methods read and write: [blokr, lock, timers], the   *)
(* fields of the Blokr object, the fields of the Lock object and the       *)
(* host's pending timers of this variant, timer id -> [rem, ...].  A timer *)
(* id is a positive number; _timerId is 0 when there is none.              *)
(***************************************************************************)
DefaultTimeout == 10000

Singleton_constructor ==
    [_timeout |-> DefaultTimeout, _timerId |-> 0, _counter |-> 0]

\* The older Lock: constructor, on() and off()
OldLock_constructor == [_locked |-> FALSE]

\* Mutant: the older listener skips the targets that are not elements.
OldLock_listener_elements_only(l, evt) ==
    IF l._locked /\ InstanceofElement(evt.target) THEN Suppress(evt) ELSE evt

\* The older listener: the three calls whenever _locked is set
OldLock_listener(l, evt) ==
    IF l._locked THEN Suppress(evt) ELSE evt

Lock_on(l) == IF l._locked THEN l ELSE [l EXCEPT !._locked = TRUE]

Lock_off(l) == IF ~l._locked THEN l ELSE [l EXCEPT !._locked = FALSE]

\* isLocked(): this._counter > 0
Singleton_isLocked(b) == b._counter > 0

FreeSingletonTimerIds(s) ==
    {n \in 1..MaxObjects : n \notin DOMAIN s.timers /\ n # s.blokr._timerId}

\* Mutant: the timer callback takes one off the counter, as unlock() does.
Singleton_timerCallback_decrement(s) ==
    [s EXCEPT !.blokr._timerId = 0,
              !.blokr._counter = @ - 1,
              !.lock = IF s.blokr._counter = 1 THEN Lock_off(@) ELSE @]

\* The timer callback of lock()
Singleton_timerCallback(s) ==
    [s EXCEPT !.blokr._timerId = 0, !.blokr._counter = 0, !.lock = Lock_off(@)]

\* Mutant: the singleton's lock() schedules the new timer without cancelling
\* the pending one.
Singleton_lock_no_clear(s) ==
    LET s1 == [s EXCEPT !.lock = Lock_on(@), !.blokr._counter = @ + 1]
        id == Least(FreeSingletonTimerIds(s1))
    IN IF s1.blokr._timeout # 0
       THEN [s1 EXCEPT !.timers = setTimeout(@, id, Undefined, Undefined,
                                             s1.blokr._timeout),
                       !.blokr._timerId = id]
       ELSE s1

\* lock()
Singleton_lock(s) ==
    LET s1 == [s EXCEPT !.lock = Lock_on(@), !.blokr._counter = @ + 1]
        s2 == IF s1.blokr._timerId # 0
              THEN [s1 EXCEPT !.timers = clearTimeout(@, s1.blokr._timerId),
                              !.blokr._timerId = 0]
              ELSE s1
        id == Least(FreeSingletonTimerIds(s2))
    IN IF s2.blokr._timeout # 0
       THEN [s2 EXCEPT !.timers = setTimeout(@, id, Undefined, Undefined,
                                             s2.blokr._timeout),
                       !.blokr._timerId = id]
       ELSE s2

\* Mutant: setTimeout() stores the value also while locked.
Singleton_setTimeout_while_locked(s, timeout) ==
    [s |-> [s EXCEPT !.blokr._timeout = IF timeout < 0 THEN 0 ELSE timeout],
     ret |-> ~Singleton_isLocked(s.blokr)]

\* setTimeout(timeout): the new state and the value returned
Singleton_setTimeout(s, timeout) ==
    IF ~Singleton_isLocked(s.blokr)
    THEN [s |-> [s EXCEPT !.blokr._timeout = IF timeout < 0 THEN 0 ELSE timeout],
          ret |-> TRUE]
    ELSE [s |-> s, ret |-> FALSE]

\* Mutant: unlock() releases on the first call, whatever the counter.
Singleton_unlock_first_call(s, abort) ==
    IF s.blokr._counter > 0
    THEN LET s1 == [s EXCEPT !.blokr._counter = 0]
             s2 == IF s1.blokr._timerId # 0
                   THEN [s1 EXCEPT !.timers = clearTimeout(@, s1.blokr._timerId),
                                   !.blokr._timerId = 0]
                   ELSE s1
         IN [s2 EXCEPT !.lock = Lock_off(@)]
    ELSE s

\* Mutant: unlock() without the abort parameter.
Singleton_unlock_no_abort(s, abort) ==
    IF s.blokr._counter > 0
    THEN LET s1 == [s EXCEPT !.blokr._counter = @ - 1] IN
         IF s1.blokr._counter = 0
         THEN LET s2 == IF s1.blokr._timerId # 0
                        THEN [s1 EXCEPT !.timers = clearTimeout(@, s1.blokr._timerId),
                                        !.blokr._timerId = 0]
                        ELSE s1
              IN [s2 EXCEPT !.lock = Lock_off(@)]
         ELSE s1
    ELSE s

\* Mutant: unlock() without its guard on the counter.
Singleton_unlock_no_guard(s, abort) ==
    LET s1 == [s EXCEPT !.blokr._counter = IF abort THEN 0 ELSE @ - 1] IN
    IF s1.blokr._counter = 0
    THEN LET s2 == IF s1.blokr._timerId # 0
                   THEN [s1 EXCEPT !.timers = clearTimeout(@, s1.blokr._timerId),
                                   !.blokr._timerId = 0]
                   ELSE s1
         IN [s2 EXCEPT !.lock = Lock_off(@)]
    ELSE s1

\* Mutant: unlock(true) resets the counter and returns.
Singleton_unlock_abort_returns(s, abort) ==
    IF s.blokr._counter > 0
    THEN IF abort
         THEN [s EXCEPT !.blokr._counter = 0]
         ELSE LET s1 == [s EXCEPT !.blokr._counter = @ - 1] IN
              IF s1.blokr._counter = 0
              THEN LET s2 == IF s1.blokr._timerId # 0
                             THEN [s1 EXCEPT !.timers = clearTimeout(@, s1.blokr._timerId),
                                             !.blokr._timerId = 0]
                             ELSE s1
                   IN [s2 EXCEPT !.lock = Lock_off(@)]
              ELSE s1
    ELSE s

\* unlock(abort = false)
Singleton_unlock(s, abort) ==
    IF s.blokr._counter > 0
    THEN LET s1 == [s EXCEPT !.blokr._counter = IF abort THEN 0 ELSE @ - 1] IN
         IF s1.blokr._counter = 0
         THEN LET s2 == IF s1.blokr._timerId # 0
                        THEN [s1 EXCEPT !.timers = clearTimeout(@, s1.blokr._timerId),
                                        !.blokr._timerId = 0]
                        ELSE s1
              IN [s2 EXCEPT !.lock = Lock_off(@)]
         ELSE s1
    ELSE s

(***************************************************************************)
(* The state machine.                                                      *)
(*                                                                         *)
(* The model keeps at most MaxObjects objects of a kind alive; a call that *)
(* may create one is taken only while one more fits.                       *)
(***************************************************************************)
State == [handles |-> handles, timers |-> timers, filters |-> filters]

EmptyMap == [x \in {} |-> x]

\* The singleton as the module exports it: new Blokr() over new Lock().
SingletonInit ==
    [blokr |-> Singleton_constructor, lock |-> OldLock_constructor,
     timers |-> EmptyMap]

\* The state once the modules are loaded in a host whose global object
\* has the properties named in global.
InitOn(global) ==
    /\ blokrs = EmptyMap
    /\ handles = EmptyMap
    /\ filters = << >>
    /\ listeners = Lock_constructor(global)
    /\ timers = EmptyMap
    /\ issued = [k \in Keys |-> {}]
    /\ singleton = SingletonInit
    /\ last = [op |-> "init"]

\* A browser.
Init == InitOn(BrowserGlobal)

\* A host without addEventListener.
InitBare == InitOn(BareGlobal)

\* The application calls blokr(target) or blokr().
Acquire(target) ==
    /\ FreeHandleNs(Key(target), handles) # {}
    /\ LET r == blokr(target, blokrs, handles) IN
        /\ blokrs' = r.blokrs
        /\ handles' = r.handles
        /\ issued' = [issued EXCEPT ![Key(target)] = @ \cup {r.ret}]
        /\ last' = [op |-> "blokr", target |-> target, ret |-> r.ret]
    /\ UNCHANGED <<filters, listeners, timers, singleton>>

\* The application calls lock(options) on a handle it holds.
Lock(self, options) ==
    /\ self \in DOMAIN handles
    /\ FreeFilterNs(self, OptionScope(options), State) # {}
    /\ FreeTimerNs(self, State) # {}
    /\ LET r == Blokr_lock(self, options, State) IN
        /\ handles' = r.st.handles
        /\ timers' = r.st.timers
        /\ filters' = r.st.filters
        /\ last' = [op |-> "lock", self |-> self, options |-> options, ret |-> r.ret,
                     released |-> IF last.op = "unlock" /\ last.self = self
                                  THEN last.scope ELSE Undefined,
                     expired |-> last.op = "timer" /\ last.self = self]
    /\ UNCHANGED <<blokrs, listeners, issued, singleton>>

\* The application calls unlock() on a handle it holds.
Unlock(self) ==
    /\ self \in DOMAIN handles
    /\ LET st == Blokr_unlock(self, State) IN
        /\ handles' = st.handles
        /\ timers' = st.timers
        /\ filters' = st.filters
    /\ last' = [op |-> "unlock", self |-> self, cleared |-> handles[self]._timerId,
                 wasLocked |-> Blokr_isLocked(handles[self]),
                 scope |-> IF Blokr_isLocked(handles[self])
                           THEN Some(Get(handles[self]._filter).scope)
                           ELSE Undefined]
    /\ UNCHANGED <<blokrs, listeners, issued, singleton>>

\* The time left of the pending timers of both variants.
Rems ==
    {timers[id].rem : id \in DOMAIN timers}
        \cup {singleton.timers[id].rem : id \in DOMAIN singleton.timers}

\* Time passes by one unit; while every pending timer is more than
\* MaxTimeout units away (the singleton's default timeout), by the stretch
\* that brings the nearest one to MaxTimeout units: no call reads the time
\* left, so the states passed over differ in nothing a call can tell.
TickLength ==
    IF Least(Rems) > MaxTimeout THEN Least(Rems) - MaxTimeout ELSE 1

\* Time passes; a timer that is due fires before time goes on.
Tick ==
    /\ Rems # {}
    /\ \A rem \in Rems : rem > 0
    /\ timers' = [id \in DOMAIN timers |->
                     [timers[id] EXCEPT !.rem = @ - TickLength]]
    /\ singleton' = [singleton EXCEPT !.timers =
                        [id \in DOMAIN singleton.timers |->
                            [singleton.timers[id] EXCEPT !.rem = @ - TickLength]]]
    /\ last' = [op |-> "tick"]
    /\ UNCHANGED <<blokrs, handles, filters, listeners, issued>>

\* Mutant: the timer callback does not call unlock().
TimerFire_no_call(id) ==
    /\ id \in DOMAIN timers
    /\ timers[id].rem = 0
    /\ timers' = clearTimeout(timers, id)
    /\ last' = [op |-> "timer", self |-> timers[id].self, id |-> id]
    /\ UNCHANGED <<blokrs, handles, filters, listeners, issued, singleton>>

\* Mutant: the timer callback unregisters the filter and clears _filter
\* itself, and leaves _timerId as it is.
TimerFire_filter_only(id) ==
    /\ id \in DOMAIN timers
    /\ timers[id].rem = 0
    /\ LET self == timers[id].self
           b == handles[self]
       IN /\ handles' = [handles EXCEPT ![self] = [@ EXCEPT !._filter = Undefined]]
          /\ timers' = clearTimeout(timers, id)
          /\ filters' = IF b._filter # Undefined
                        THEN Lock_unregister(filters, Get(b._filter))
                        ELSE filters
          /\ last' = [op |-> "timer", self |-> self, id |-> id]
    /\ UNCHANGED <<blokrs, listeners, issued, singleton>>

\* A due timer fires: the host drops it and runs () => this.unlock().
TimerFire(id) ==
    /\ id \in DOMAIN timers
    /\ timers[id].rem = 0
    /\ LET self == timers[id].self
           st == Blokr_unlock(self, [State EXCEPT !.timers = clearTimeout(timers, id)])
       IN /\ handles' = st.handles
          /\ timers' = st.timers
          /\ filters' = st.filters
          /\ last' = [op |-> "timer", self |-> self, id |-> id]
    /\ UNCHANGED <<blokrs, listeners, issued, singleton>>

\* The host dispatches an event of some type at a node of the document (by
\* the user's doing or by dispatchEvent): the event as the interceptor's
\* listener for that type, if there is one, leaves it.
HostDispatch(type, target, isTrusted) ==
    IF \E i \in DOMAIN listeners : listeners[i].type = type
    THEN Lock_listener(filters, handles, NewEvent(type, target, isTrusted))
    ELSE NewEvent(type, target, isTrusted)

\* The listeners of the application: on every node and on the global
\* object, for the capture and for the bubble phase.  early tells the
\* listeners on the global object that were added before the module was
\* loaded (and its Lock constructed) from those added after.
AppListeners ==
    [at : Nodes, capture : BOOLEAN, early : {FALSE}]
        \cup [at : {GlobalThis}, capture : BOOLEAN, early : BOOLEAN]

\* The nodes an event at target passes: the target, its ancestors, the
\* document and the global object.
RECURSIVE EventPath(_)
EventPath(target) ==
    IF target \in Elements THEN {target} \cup EventPath(Parent(target))
    ELSE {target, GlobalThis}

\* The listeners of the application the host invokes for the event evt of
\* the given type at target, given what the interceptor's listener has
\* called on it.  The host walks from
\* the global object down to the target (capture listeners) and back up
\* (the others), on each node in the order the listeners were added;
\* stopPropagation() ends the walk after the current node,
\* stopImmediatePropagation() also skips the listeners added later on the
\* current node.
InvokedListeners(type, target, evt) ==
    LET onPath == {l \in AppListeners : l.at \in EventPath(target)}
        own == {i \in DOMAIN listeners : listeners[i].type = type}
    IN IF own = {} THEN onPath
       ELSE LET capture == listeners[CHOOSE i \in own : TRUE].capture
                Before(l) ==
                    IF capture
                    THEN l.at = GlobalThis /\ l.capture /\ l.early
                    ELSE ~(l.at = GlobalThis /\ ~l.capture /\ ~l.early)
                Beside(l) ==
                    l.at = GlobalThis /\ l.capture = capture /\ ~l.early
            IN {l \in onPath :
                   \/ Before(l)
                   \/ Beside(l) /\ evt.stopImmediatePropagation = 0
                   \/ /\ ~Before(l) /\ ~Beside(l)
                      /\ evt.stopImmediatePropagation = 0
                      /\ evt.stopPropagation = 0}

Dispatch(type, target, isTrusted) ==
    /\ LET evt == HostDispatch(type, target, isTrusted) IN
        last' = [op |-> "dispatch", evt |-> evt,
                 delivered |-> (evt.stopImmediatePropagation = 0
                                /\ evt.stopPropagation = 0)]
    /\ UNCHANGED <<blokrs, handles, filters, listeners, timers, issued, singleton>>

\* A module that imports lock.ts calls register(filter) with a closure of
\* its own.
Register(filter) ==
    /\ filters' = Lock_register(filters, filter)
    /\ last' = [op |-> "register", filter |-> filter,
                 present |-> filter \in Range(filters)]
    /\ UNCHANGED <<blokrs, handles, listeners, timers, issued, singleton>>

\* A module that imports lock.ts calls unregister(filter).
Unregister(filter) ==
    /\ filters' = Lock_unregister(filters, filter)
    /\ last' = [op |-> "unregister", filter |-> filter,
                 present |-> filter \in Range(filters)]
    /\ UNCHANGED <<blokrs, handles, listeners, timers, issued, singleton>>

\* The application calls lock() on the singleton.
SingletonLock ==
    /\ singleton.blokr._counter < MaxCount
    /\ FreeSingletonTimerIds(singleton) # {}
    /\ singleton' = Singleton_lock(singleton)
    /\ last' = [op |-> "singleton.lock"]
    /\ UNCHANGED <<blokrs, handles, filters, listeners, timers, issued>>

\* The application calls unlock() or unlock(abort) on the singleton.
SingletonUnlock(abort) ==
    /\ singleton' = Singleton_unlock(singleton, abort)
    /\ last' = [op |-> "singleton.unlock", abort |-> abort,
                 counter |-> singleton.blokr._counter]
    /\ UNCHANGED <<blokrs, handles, filters, listeners, timers, issued>>

\* The application calls setTimeout(timeout) on the singleton.
SingletonSetTimeout(timeout) ==
    /\ LET r == Singleton_setTimeout(singleton, timeout) IN
        /\ singleton' = r.s
        /\ last' = [op |-> "singleton.setTimeout", timeout |-> timeout, ret |-> r.ret]
    /\ UNCHANGED <<blokrs, handles, filters, listeners, timers, issued>>

\* A due timer of the singleton fires: the host drops it and runs the
\* callback lock() gave it.
SingletonTimerFire(id) ==
    /\ id \in DOMAIN singleton.timers
    /\ singleton.timers[id].rem = 0
    /\ singleton' = Singleton_timerCallback(
                        [singleton EXCEPT !.timers = clearTimeout(@, id)])
    /\ last' = [op |-> "singleton.timer", id |-> id,
                 counter |-> singleton.blokr._counter]
    /\ UNCHANGED <<blokrs, handles, filters, listeners, timers, issued>>

\* The host dispatches an event in a page that loaded the singleton variant:
\* the older Lock listens to the same eventNames, capture: true.
SingletonHostDispatch(type, target, isTrusted) ==
    IF type \in Range(eventNames)
    THEN OldLock_listener(singleton.lock, NewEvent(type, target, isTrusted))
    ELSE NewEvent(type, target, isTrusted)

SingletonDispatch(type, target, isTrusted) ==
    /\ LET evt == SingletonHostDispatch(type, target, isTrusted) IN
        last' = [op |-> "singleton.dispatch", evt |-> evt,
                 delivered |-> (evt.stopImmediatePropagation = 0
                                /\ evt.stopPropagation = 0)]
    /\ UNCHANGED <<blokrs, handles, filters, listeners, timers, issued, singleton>>

(***************************************************************************)
(* Spec: locks with and without timeout on the global handle and on the    *)
(* handle of element 2, time, and events of one intercepted and one other  *)
(* type at every node, caused by the user or dispatched by a script.       *)
(***************************************************************************)
TimedTargets == {2}
TimedEventTypes == {"keydown", "click"}

Next ==
    \/ \E target \in Opt(TimedTargets) : Acquire(target)
    \/ \E self \in DOMAIN handles, options \in OptionsSet : Lock(self, options)
    \/ \E self \in DOMAIN handles : Unlock(self)
    \/ Tick
    \/ \E id \in DOMAIN timers : TimerFire(id)
    \/ \E type \in TimedEventTypes, target \in Nodes, isTrusted \in BOOLEAN :
          Dispatch(type, target, isTrusted)

Spec == Init /\ [][Next]_vars

(***************************************************************************)
(* SpecDom: locks without timeout on the global handle and on the handles  *)
(* of the elements 2 and 3, and the user's events of every type at every   *)
(* node.                                                                   *)
(***************************************************************************)
UntimedOptions == [scope : Opt(Scopes), timeout : {Undefined}]

NextDom ==
    \/ \E target \in Opt(Targets) : Acquire(target)
    \/ \E self \in DOMAIN handles, options \in UntimedOptions : Lock(self, options)
    \/ \E self \in DOMAIN handles : Unlock(self)
    \/ \E type \in EventTypes, target \in Nodes : Dispatch(type, target, TRUE)

SpecDom == Init /\ [][NextDom]_vars

(***************************************************************************)
(* SpecBare: the calls, the timers and the events of Spec in a host        *)
(* without addEventListener.                                               *)
(***************************************************************************)
SpecBare == InitBare /\ [][Next]_vars

(***************************************************************************)
(* SpecLock: the interceptor used directly: register() and unregister()    *)
(* with closures over the global handle and the handle of element 2, in    *)
(* any order and any number of times, and the user's keydown events at     *)
(* every node.                                                             *)
(***************************************************************************)
ClientFilters ==
    {[self |-> h, scope |-> scope, n |-> 1] : h \in DOMAIN handles, scope \in Scopes}

NextLock ==
    \/ \E target \in Opt(TimedTargets) : Acquire(target)
    \/ \E filter \in ClientFilters : Register(filter)
    \/ \E filter \in ClientFilters : Unregister(filter)
    \/ \E target \in Nodes : Dispatch("keydown", target, TRUE)

SpecLock == Init /\ [][NextLock]_vars

(***************************************************************************)
(* LiveSpec: the calls and the timers of Spec (the dispatch of an event     *)
(* changes nothing they read) with the host's scheduling: time goes on     *)
(* while a timer is pending, and while timers are due one of them fires.   *)
(* (The host fires every due timer; no other timer becomes due while one   *)
(* is due, so this is enough for each of them to fire.)                    *)
(***************************************************************************)
HandleIds == [key : TimedTargets \cup {GlobalThis}, n : 1..MaxObjects]
TimerIds == [self : HandleIds, n : 1..MaxObjects]

NextLive ==
    \/ \E target \in Opt(TimedTargets) : Acquire(target)
    \/ \E self \in DOMAIN handles, options \in OptionsSet : Lock(self, options)
    \/ \E self \in DOMAIN handles : Unlock(self)
    \/ Tick
    \/ \E id \in DOMAIN timers : TimerFire(id)

LiveSpec ==
    /\ Init
    /\ [][NextLive]_vars
    /\ WF_vars(Tick)
    /\ WF_vars(\E id \in TimerIds : TimerFire(id))

(***************************************************************************)
(* SpecTimeout: the timeouts of both variants: the calls and the timers of *)
(* Spec, and the singleton's lock(), unlock() and setTimeout() with its    *)
(* timer.  A page loads one version of the library: the calls of the       *)
(* handle variant are taken while the singleton is as it was constructed,  *)
(* those of the singleton while no handle has been acquired.               *)
(***************************************************************************)
NextTimeout ==
    \/ \E target \in Opt(TimedTargets) :
          singleton = SingletonInit /\ Acquire(target)
    \/ \E self \in DOMAIN handles, options \in OptionsSet :
          singleton = SingletonInit /\ Lock(self, options)
    \/ \E self \in DOMAIN handles :
          singleton = SingletonInit /\ Unlock(self)
    \/ \E id \in DOMAIN timers : TimerFire(id)
    \/ handles = EmptyMap /\ SingletonLock
    \/ \E abort \in BOOLEAN : handles = EmptyMap /\ SingletonUnlock(abort)
    \/ \E timeout \in Timeouts : handles = EmptyMap /\ SingletonSetTimeout(timeout)
    \/ \E id \in DOMAIN singleton.timers : SingletonTimerFire(id)
    \/ Tick

SpecTimeout == Init /\ [][NextTimeout]_vars

(***************************************************************************)
(* SpecSingleton: the singleton variant alone: lock(), unlock(),           *)
(* unlock(true) and setTimeout(), time and the timer, and the user's       *)
(* events of one intercepted and one other type at every node.             *)
(***************************************************************************)
NextSingleton ==
    \/ SingletonLock
    \/ \E abort \in BOOLEAN : SingletonUnlock(abort)
    \/ \E timeout \in Timeouts : SingletonSetTimeout(timeout)
    \/ \E id \in DOMAIN singleton.timers : SingletonTimerFire(id)
    \/ Tick
    \/ \E type \in TimedEventTypes, target \in Nodes :
          SingletonDispatch(type, target, TRUE)

SpecSingleton == Init /\ [][NextSingleton]_vars

(***************************************************************************)
(* LiveSingleton: SpecSingleton with the host's scheduling: time goes on   *)
(* while a timer is pending, and a due timer fires.                        *)
(***************************************************************************)
LiveSingleton ==
    /\ Init
    /\ [][NextSingleton]_vars
    /\ WF_vars(Tick)
    /\ WF_vars(\E id \in 1..MaxObjects : SingletonTimerFire(id))

(***************************************************************************)
(* Properties.                                                             *)
(***************************************************************************)
IsLocked(h) == Blokr_isLocked(handles[h])

\* The predicates of handle h in the registry.
RegisteredOf(h) == {i \in DOMAIN filters : filters[i].self = h}

\* C1: lock() returns true exactly when the handle was not locked at the
\* time of the call, and the handle is locked when lock() returns, whatever
\* it returns.
C1_LockReturnsWhetherItLocked ==
    [][\A h \in DOMAIN handles :
          (last'.op = "lock" /\ last'.self = h)
              => /\ last'.ret = ~IsLocked(h)
                 /\ Blokr_isLocked(handles'[h])]_vars

C1_Witness ==
    /\ last.op = "lock"
    /\ last.ret = FALSE
    /\ IsLocked(last.self)

\* C2: a handle is locked if and only if its predicate is in the registry,
\* the predicate in the registry is the one the handle holds, and no handle
\* has more than one predicate in the registry.
C2_LockedIffRegistered ==
    \A h \in DOMAIN handles :
        /\ IsLocked(h) <=> RegisteredOf(h) # {}
        /\ IsLocked(h) => Get(handles[h]._filter) \in Range(filters)
        /\ Cardinality(RegisteredOf(h)) <= 1

C2_Witness ==
    /\ last.op = "timer"
    /\ \E h \in DOMAIN handles : IsLocked(h)
    /\ \E h \in DOMAIN handles : ~IsLocked(h)

\* C3: a lock() call that returns false changes nothing: not the handles
\* (their predicates and timer ids), not the pending timers and the time
\* they have left, not the registry.
C3_RejectedLockChangesNothing ==
    [][(last'.op = "lock" /\ last'.ret = FALSE)
          => UNCHANGED <<blokrs, handles, filters, listeners, timers>>]_vars

C3_Witness ==
    /\ last.op = "lock"
    /\ last.ret = FALSE
    /\ last.options.timeout # Undefined
    /\ Get(last.options.timeout) > 0
    /\ last.options.scope = Some("outside")
    /\ Get(handles[last.self]._filter).scope = "self"
    /\ handles[last.self]._timerId # Undefined

\* The last call was the dispatch of an event of a type the interceptor
\* listens to.
Intercepted == last.op = "dispatch" /\ last.evt.type \in Range(eventNames)

\* The event last dispatched was suppressed: the three calls were made on it
\* and the handlers after the interceptor's did not run.
Suppressed ==
    /\ last.evt.stopImmediatePropagation >= 1
    /\ last.evt.stopPropagation >= 1
    /\ last.evt.preventDefault >= 1
    /\ ~last.delivered

\* The event last dispatched passed untouched.
Passed ==
    /\ last.evt.stopImmediatePropagation = 0
    /\ last.evt.stopPropagation = 0
    /\ last.evt.preventDefault = 0
    /\ last.delivered

RECURSIVE AncestorsOrSelf(_)
AncestorsOrSelf(n) ==
    IF n \in Elements THEN {n} \cup AncestorsOrSelf(Parent(n)) ELSE {n}

\* E is T or a descendant of T.
InSubtree(T, E) == T \in AncestorsOrSelf(E)

\* h is bound to an element and locked with the given scope.
LockedWith(h, scope) ==
    /\ handles[h]._target # Undefined
    /\ IsLocked(h)
    /\ Get(handles[h]._filter).scope = scope

\* No handle but h is locked.
SoleLocked(h) == \A g \in DOMAIN handles : IsLocked(g) => g = h

TargetOf(h) == Get(handles[h]._target)

GlobalLocked ==
    /\ GlobalThis \in DOMAIN blokrs
    /\ IsLocked(blokrs[GlobalThis])

\* C4 as stated: while the global handle is locked, every intercepted event
\* is suppressed, whatever the scope.
C4_GlobalSuppressesEveryEvent ==
    (Intercepted /\ GlobalLocked) => Suppressed

\* C4 amended: while the global handle is locked, every intercepted event
\* whose target is an element is suppressed, whatever the scope.
C4_GlobalSuppressesElementEvents ==
    (Intercepted /\ GlobalLocked /\ last.evt.target \in Elements) => Suppressed

C4_Witness ==
    /\ Intercepted
    /\ GlobalLocked
    /\ SoleLocked(blokrs[GlobalThis])
    /\ Get(handles[blokrs[GlobalThis]]._filter).scope = "self"
    /\ last.evt.target \in Elements
    /\ Suppressed

\* C5: lock() with scope 'inside' or without scope installs an 'inside'
\* predicate; while a handle bound to T is locked with it, an intercepted
\* event at T or at a descendant of T is suppressed, and when no other
\* handle is locked an intercepted event is suppressed if and only if its
\* target is T or a descendant of T.
C5_InsideSuppressesSubtree ==
    /\ (last.op = "lock" /\ last.ret
            /\ last.options.scope \in {Undefined, Some("inside")})
        => Get(handles[last.self]._filter).scope = "inside"
    /\ Intercepted =>
        \A h \in DOMAIN handles : LockedWith(h, "inside") =>
            /\ InSubtree(TargetOf(h), last.evt.target) => Suppressed
            /\ SoleLocked(h) =>
                /\ Suppressed <=> InSubtree(TargetOf(h), last.evt.target)
                /\ Passed <=> ~InSubtree(TargetOf(h), last.evt.target)

C5_Witness ==
    /\ Intercepted
    /\ \E h \in DOMAIN handles :
        /\ LockedWith(h, "inside")
        /\ SoleLocked(h)
        /\ last.evt.target # TargetOf(h)
        /\ InSubtree(TargetOf(h), last.evt.target)
        /\ Suppressed

\* C6 as stated: while a handle bound to T is locked with scope 'outside',
\* an intercepted event is suppressed by it if and only if its target is
\* neither T nor a descendant of T.
C6_OutsideSuppressesEveryOtherTarget ==
    Intercepted =>
        \A h \in DOMAIN handles : LockedWith(h, "outside") =>
            /\ ~InSubtree(TargetOf(h), last.evt.target) => Suppressed
            /\ SoleLocked(h) =>
                /\ Suppressed <=> ~InSubtree(TargetOf(h), last.evt.target)
                /\ Passed <=> InSubtree(TargetOf(h), last.evt.target)

\* C6 amended: while a handle bound to T is locked with scope 'outside', an
\* intercepted event whose target is an element is suppressed by it if and
\* only if its target is neither T nor a descendant of T.
C6_OutsideSuppressesOtherElements ==
    (Intercepted /\ last.evt.target \in Elements) =>
        \A h \in DOMAIN handles : LockedWith(h, "outside") =>
            /\ ~InSubtree(TargetOf(h), last.evt.target) => Suppressed
            /\ SoleLocked(h) =>
                /\ Suppressed <=> ~InSubtree(TargetOf(h), last.evt.target)
                /\ Passed <=> InSubtree(TargetOf(h), last.evt.target)

C6_Witness ==
    /\ Intercepted
    /\ \E h \in DOMAIN handles :
        /\ LockedWith(h, "outside")
        /\ SoleLocked(h)
        /\ last.evt.target \in Elements
        /\ Parent(last.evt.target) = Parent(TargetOf(h))
        /\ last.evt.target # TargetOf(h)
        /\ Suppressed

\* C7: while a handle bound to T is locked with scope 'self', an intercepted
\* event at T is suppressed, and when no other handle is locked an
\* intercepted event is suppressed if and only if its target is T: at a
\* descendant of T and outside T it passes and its handlers run.
C7_SelfSuppressesOnlyTarget ==
    Intercepted =>
        \A h \in DOMAIN handles : LockedWith(h, "self") =>
            /\ last.evt.target = TargetOf(h) => Suppressed
            /\ SoleLocked(h) =>
                /\ Suppressed <=> last.evt.target = TargetOf(h)
                /\ Passed <=> last.evt.target # TargetOf(h)

C7_Witness ==
    /\ Intercepted
    /\ \E h \in DOMAIN handles :
        /\ LockedWith(h, "self")
        /\ SoleLocked(h)
        /\ last.evt.target # TargetOf(h)
        /\ InSubtree(TargetOf(h), last.evt.target)
        /\ Passed

\* C8: blokr() returns one handle per key, the same on every call: the
\* handles returned for a target are one handle, bound to that target, the
\* handles returned for different targets differ, and the global handle is
\* none of them.
C8_OneHandlePerTarget ==
    /\ \A k \in Keys : Cardinality(issued[k]) <= 1
    /\ \A k1, k2 \in Keys : k1 # k2 => issued[k1] \cap issued[k2] = {}
    /\ last.op = "blokr" =>
        /\ issued[Key(last.target)] = {last.ret}
        /\ handles[last.ret]._target = last.target

\* blokr(target) has returned a handle that was locked before the call, with
\* handles for every other key in the cache.
C8_Witness ==
    /\ last.op = "blokr"
    /\ last.target # Undefined
    /\ IsLocked(last.ret)
    /\ \A k \in Keys : issued[k] # {}

\* C9: a lock() with a timeout t > 0 that returns true leaves a timer
\* pending that is due in t; the step in which a handle's timer fires, which
\* takes a due timer, leaves the handle unlocked and without predicate in
\* the registry; and the handle of a key, locked with a timer pending, is
\* unlocked at some later time.
C9_TimedLockExpires ==
    /\ [](  (last.op = "lock" /\ last.ret /\ OptionTimeout(last.options) > 0)
         => LET b == handles[last.self] IN
            /\ b._timerId # Undefined
            /\ Get(b._timerId) \in DOMAIN timers
            /\ timers[Get(b._timerId)].self = last.self
            /\ timers[Get(b._timerId)].rem = OptionTimeout(last.options))
    /\ [][last'.op = "timer"
            => /\ timers[last'.id].rem = 0
               /\ ~Blokr_isLocked(handles'[last'.self])
               /\ \A i \in DOMAIN filters' : filters'[i].self # last'.self]_vars
    /\ \A k \in TimedTargets \cup {GlobalThis} :
        (/\ k \in DOMAIN blokrs
         /\ IsLocked(blokrs[k])
         /\ handles[blokrs[k]]._timerId # Undefined)
            ~> (k \in DOMAIN blokrs /\ ~IsLocked(blokrs[k]))

C9_Witness ==
    /\ last.op = "timer"
    /\ ~IsLocked(last.self)
    /\ \A i \in DOMAIN filters : filters[i].self # last.self

\* C10: every pending timer was scheduled by the lock() call that began its
\* handle's present lock period and is the timer the handle holds; after
\* unlock() no timer of the handle is pending.
C10_NoTimerOutlivesItsLock ==
    /\ \A id \in DOMAIN timers :
        /\ handles[timers[id].self]._filter = Some(timers[id].filter)
        /\ handles[timers[id].self]._timerId = Some(id)
    /\ last.op = "unlock" =>
        \A id \in DOMAIN timers : timers[id].self # last.self

\* unlock() has been called on a handle that held a timer id.
C10_Witness ==
    /\ last.op = "unlock"
    /\ last.cleared # Undefined
    /\ ~IsLocked(last.self)

(***************************************************************************)
(* C11..C20.                                                               *)
(***************************************************************************)
\* What a call can observe or change of handle b: its fields (and so
\* isLocked()), its predicates in the registry and its pending timers.
HandleView(b) ==
    [handle |-> handles[b],
     locked |-> IsLocked(b),
     registered |-> {filters[i] : i \in RegisteredOf(b)},
     pending |-> {<<id, timers[id]>> : id \in {t \in DOMAIN timers : timers[t].self = b}}]

\* C11: a call of lock() (accepted or rejected) or unlock() on a handle, and
\* the expiry of its timer, leave every other handle as it was: isLocked(),
\* the predicate in the registry and the pending timer do not change.
C11_OtherHandlesUntouched ==
    [][\A a \in DOMAIN handles, b \in DOMAIN handles :
          (a # b /\ last'.op \in {"lock", "unlock", "timer"} /\ last'.self = a)
              => HandleView(b)' = HandleView(b)]_vars

\* The timer of one handle has expired while another handle is locked with a
\* timer pending.
C11_Witness ==
    /\ last.op = "timer"
    /\ ~IsLocked(last.self)
    /\ \E b \in DOMAIN handles :
        /\ b # last.self
        /\ IsLocked(b)
        /\ handles[b]._timerId # Undefined
        /\ Get(handles[b]._timerId) \in DOMAIN timers

\* The scope predicate of the locked handle h, for the node E: always true
\* for the handle without target; E is T for 'self'; E is T or below T for
\* 'inside'; E is neither T nor below T for 'outside'.
ScopeMatches(h, E) ==
    IF handles[h]._target = Undefined THEN TRUE
    ELSE LET scope == Get(handles[h]._filter).scope IN
         IF scope = "self" THEN E = TargetOf(h)
         ELSE IF scope = "inside" THEN InSubtree(TargetOf(h), E)
         ELSE ~InSubtree(TargetOf(h), E)

\* Some locked handle's predicate is true for the node E.
SomeLockMatches(E) ==
    \E h \in DOMAIN handles : IsLocked(h) /\ ScopeMatches(h, E)

\* C12 as stated: an intercepted event is suppressed exactly when the scope
\* predicate of at least one locked handle is true for its target.
C12_SuppressedIffSomePredicateTrue ==
    Intercepted => (Suppressed <=> SomeLockMatches(last.evt.target))

\* C12 amended: an intercepted event whose target is an element is suppressed
\* exactly when the scope predicate of at least one locked handle is true
\* for its target, and passes otherwise; this holds in every state, so also
\* after some of the locked handles have been unlocked.
C12_ElementSuppressedIffSomePredicateTrue ==
    (Intercepted /\ last.evt.target \in Elements) =>
        /\ Suppressed <=> SomeLockMatches(last.evt.target)
        /\ Passed <=> ~SomeLockMatches(last.evt.target)

\* Two handles are locked, the predicate registered first is false for the
\* target of the event, the other one is true, and the event was suppressed.
C12_Witness ==
    /\ Intercepted
    /\ last.evt.target \in Elements
    /\ Len(filters) >= 2
    /\ ~ScopeMatches(filters[1].self, last.evt.target)
    /\ \E i \in DOMAIN filters : ScopeMatches(filters[i].self, last.evt.target)
    /\ Suppressed

\* C13: unlock() never fails and is idempotent: it can be called on every
\* handle in every state; called on a handle that is not locked it changes
\* nothing; a second unlock() right after the first changes nothing, and
\* unlock() applied twice gives the state that one unlock() gives.
C13_UnlockIdempotent ==
    /\ [](\A h \in DOMAIN handles :
            /\ ENABLED Unlock(h)
            /\ Blokr_unlock(h, Blokr_unlock(h, State)) = Blokr_unlock(h, State)
            /\ ~IsLocked(h) => Blokr_unlock(h, State) = State)
    /\ [][(last'.op = "unlock"
             /\ (~IsLocked(last'.self)
                 \/ (last.op = "unlock" /\ last.self = last'.self)))
           => UNCHANGED <<blokrs, handles, filters, listeners, timers, issued>>]_vars

\* unlock() was called on a handle that was not locked, while another handle
\* is locked with a timer pending.
C13_Witness ==
    /\ last.op = "unlock"
    /\ ~last.wasLocked
    /\ last.cleared = Undefined
    /\ \E b \in DOMAIN handles :
        /\ b # last.self
        /\ IsLocked(b)
        /\ RegisteredOf(b) # {}
        /\ handles[b]._timerId # Undefined

\* What the interceptor does to an event of the given type at node E that
\* is dispatched in the current state.
SuppressedNow(type, E) ==
    LET evt == HostDispatch(type, E, TRUE) IN
    /\ evt.stopImmediatePropagation >= 1
    /\ evt.stopPropagation >= 1
    /\ evt.preventDefault >= 1

PassesNow(type, E) == HostDispatch(type, E, TRUE) = NewEvent(type, E, TRUE)

\* C14: lock() and unlock() take effect at once.  When lock() has returned
\* true the handle is locked and an intercepted event at an element its
\* scope covers, dispatched next, is suppressed; when unlock() has returned
\* the handle is not locked and an intercepted event that no other locked
\* handle covers, dispatched next, passes.  This holds after every sequence
\* of lock() and unlock() calls.
C14_EffectIsImmediate ==
    /\ []((last.op = "lock" /\ last.ret) =>
            /\ IsLocked(last.self)
            /\ \A type \in Range(eventNames), E \in Elements :
                 ScopeMatches(last.self, E) => SuppressedNow(type, E))
    /\ [](last.op = "unlock" =>
            /\ ~IsLocked(last.self)
            /\ \A type \in Range(eventNames), E \in Elements :
                 ~SomeLockMatches(E) => PassesNow(type, E))
    /\ [][(last'.op = "dispatch" /\ last'.evt.type \in Range(eventNames)
             /\ last'.evt.target \in Elements) =>
            /\ (last.op = "lock" /\ last.ret
                  /\ ScopeMatches(last.self, last'.evt.target)) => Suppressed'
            /\ (last.op = "unlock" /\ ~SomeLockMatches(last'.evt.target))
                  => Passed']_vars

\* lock() has just returned true on the handle of an element, no other
\* handle is locked, a keydown dispatched now at the element is suppressed
\* and one at its sibling passes.
C14_Witness ==
    /\ last.op = "lock"
    /\ last.ret
    /\ handles[last.self]._target # Undefined
    /\ SoleLocked(last.self)
    /\ Get(handles[last.self]._filter).scope = "inside"
    /\ SuppressedNow("keydown", TargetOf(last.self))
    /\ \E E \in Elements : ~ScopeMatches(last.self, E) /\ PassesNow("keydown", E)

\* The listeners of the application the host has invoked for the event
\* dispatched last.
Ran == InvokedListeners(last.evt.type, last.evt.target, last.evt)

\* The listeners of the application on the way of an event at E.
ListenersOnPath(E) ==
    {l \in AppListeners : l.at \in AncestorsOrSelf(E) \cup {Document, GlobalThis}}

\* C15: an intercepted event for which no registered predicate is true
\* (the empty registry included) passes untouched: none of the three calls
\* is made on it and the listeners after the interceptor's run.
C15_UnmatchedEventPasses ==
    (Intercepted /\ ~SomeLockMatches(last.evt.target)) =>
        /\ Passed
        /\ Ran = ListenersOnPath(last.evt.target)

\* An intercepted event at an element passed while a handle is locked whose
\* predicate is false for that element.
C15_Witness ==
    /\ Intercepted
    /\ last.evt.target \in Elements
    /\ filters # << >>
    /\ \E h \in DOMAIN handles : IsLocked(h)
    /\ ~SomeLockMatches(last.evt.target)
    /\ Passed
    /\ Ran = ListenersOnPath(last.evt.target)

\* C16: on every suppressed event each of stopImmediatePropagation(),
\* stopPropagation() and preventDefault() is called exactly once, also when
\* several registered predicates are true for it, and no listener after the
\* interceptor's runs; an event is either suppressed like this or untouched.
C16_ThreeCallsOnceEach ==
    last.op = "dispatch" =>
        \/ Passed
        \/ /\ last.evt.stopImmediatePropagation = 1
           /\ last.evt.stopPropagation = 1
           /\ last.evt.preventDefault = 1
           /\ ~last.delivered
           /\ \A l \in Ran : l.at # last.evt.target

\* An event was suppressed for which the predicates of two locked handles
\* are true.
C16_Witness ==
    /\ Intercepted
    /\ Suppressed
    /\ \E g \in DOMAIN handles, h \in DOMAIN handles :
        /\ g # h
        /\ IsLocked(g) /\ ScopeMatches(g, last.evt.target)
        /\ IsLocked(h) /\ ScopeMatches(h, last.evt.target)
    /\ last.evt.preventDefault = 1

\* C17: an event dispatched by a script (isTrusted false) is not blocked:
\* it passes untouched whatever is locked; only the user's events are
\* suppressed.
C17_SyntheticEventsPass ==
    (last.op = "dispatch" /\ ~last.evt.isTrusted) => Passed

SixTypes ==
    {"contextmenu", "keydown", "mousedown", "wheel", "touchstart", "touchmove"}

\* C18: only events of the six types are ever suppressed: an event on which
\* one of the three calls was made is of one of the six types, and an event
\* of any other type reaches all listeners on its way unchanged in every
\* state, also while the global handle is locked.
C18_OnlySixTypesSuppressed ==
    last.op = "dispatch" =>
        /\ ~Passed => last.evt.type \in SixTypes
        /\ last.evt.type \notin SixTypes =>
              /\ Passed
              /\ Ran = ListenersOnPath(last.evt.target)

\* A click at an element has passed while the global handle is locked.
C18_Witness ==
    /\ last.op = "dispatch"
    /\ last.evt.type = "click"
    /\ last.evt.target \in Elements
    /\ GlobalLocked
    /\ Passed
    /\ Ran = ListenersOnPath(last.evt.target)

\* C19 as stated: the interceptor's listener sees every intercepted event
\* before any other listener, so a suppressed event reaches no listener of
\* the application, in the capture or the bubble phase, on the target or on
\* any node on its way.
C19_SuppressedEventReachesNoListener ==
    (Intercepted /\ Suppressed) => Ran = {}

\* A capture listener added to the global object before the Lock was
\* constructed: the only kind of listener the host invokes before the
\* interceptor's.
AddedFirst(l) == l.at = GlobalThis /\ l.capture /\ l.early

\* C19 amended: the interceptor's listener sees every intercepted event
\* before any other listener but the capture listeners that were added to
\* the global object before it, so a suppressed event reaches no other
\* listener of the application, in the capture or the bubble phase, on the
\* target, on the nodes on its way or on the global object.
C19_SuppressedEventReachesNoLaterListener ==
    (Intercepted /\ Suppressed) =>
        /\ \A l \in Ran : AddedFirst(l)
        /\ \A l \in ListenersOnPath(last.evt.target) : ~AddedFirst(l) => l \notin Ran

\* An event at an element below the root was suppressed: the listeners on
\* the element, on its parent, on the document and the later ones on the
\* global object did not run, the listener added first did.
C19_Witness ==
    /\ Intercepted
    /\ Suppressed
    /\ last.evt.target \in Elements \ {1}
    /\ Ran = {[at |-> GlobalThis, capture |-> TRUE, early |-> TRUE]}
    /\ \E l \in ListenersOnPath(last.evt.target) :
          l.at = Parent(last.evt.target) /\ l.capture /\ l \notin Ran

\* The timeout option of the lock() call recorded in last is omitted, 0 or
\* negative.
NonPositiveTimeout(options) ==
    options.timeout = Undefined \/ Get(options.timeout) <= 0

\* Handle h has a timer pending.
HasPendingTimer(h) == \E id \in DOMAIN timers : timers[id].self = h

\* C20: a non-positive timeout means no auto-expiry.  An accepted lock() on
\* a handle with the timeout omitted, 0 or negative schedules no timer; an
\* accepted setTimeout() of the singleton with 0 or a negative value stores
\* 0, and lock() called with 0 stored (the call that follows included)
\* schedules no timer; a lock without timer is released by no step but a
\* call of unlock().
C20_NonPositiveTimeoutNeverExpires ==
    /\ []((last.op = "lock" /\ last.ret /\ NonPositiveTimeout(last.options)) =>
            /\ handles[last.self]._timerId = Undefined
            /\ ~HasPendingTimer(last.self))
    /\ []((last.op = "singleton.setTimeout" /\ last.ret /\ last.timeout <= 0) =>
            singleton.blokr._timeout = 0)
    /\ []((last.op = "singleton.lock" /\ singleton.blokr._timeout = 0) =>
            /\ singleton.blokr._timerId = 0
            /\ DOMAIN singleton.timers = {})
    /\ [][(last.op = "singleton.setTimeout" /\ last.ret /\ last.timeout <= 0
             /\ last'.op = "singleton.lock") =>
            /\ Singleton_isLocked(singleton'.blokr)
            /\ singleton'.blokr._timerId = 0
            /\ DOMAIN singleton'.timers = {}]_vars
    /\ [][\A h \in DOMAIN handles :
            (IsLocked(h) /\ ~HasPendingTimer(h) /\ ~Blokr_isLocked(handles'[h]))
                => (last'.op = "unlock" /\ last'.self = h)]_vars
    /\ [][(Singleton_isLocked(singleton.blokr) /\ DOMAIN singleton.timers = {}
             /\ ~Singleton_isLocked(singleton'.blokr))
            => last'.op = "singleton.unlock"]_vars

\* The singleton's lock() has just been called with the 0 stored that an
\* accepted setTimeout() with 0 or a negative value leaves (the constructor
\* stores DefaultTimeout): the singleton is locked and no timer is pending.
C20_Witness ==
    /\ last.op = "singleton.lock"
    /\ singleton.blokr._timeout = 0
    /\ Singleton_isLocked(singleton.blokr)
    /\ singleton.blokr._timerId = 0
    /\ DOMAIN singleton.timers = {}

(***************************************************************************)
(* C21..C30.                                                               *)
(***************************************************************************)
\* The pending timers whose callback unlocks handle h.
TimersOf(h) == {id \in DOMAIN timers : timers[id].self = h}

\* C21: timers never stack: in every state at most one timer is pending for
\* each handle and at most one for the singleton, and the pending timer is
\* the one the object holds the id of.
C21_TimersNeverStack ==
    /\ \A h \in DOMAIN handles :
        /\ Cardinality(TimersOf(h)) <= 1
        /\ \A id \in TimersOf(h) : handles[h]._timerId = Some(id)
    /\ Cardinality(DOMAIN singleton.timers) <= 1
    /\ \A id \in DOMAIN singleton.timers : singleton.blokr._timerId = id

\* lock() with a timeout has just been accepted on one handle while the
\* other handle is locked with its own timer: one timer is pending for each.
C21_Witness ==
    /\ last.op = "lock"
    /\ last.ret
    /\ Cardinality(TimersOf(last.self)) = 1
    /\ \E b \in DOMAIN handles :
        /\ b # last.self
        /\ IsLocked(b)
        /\ Cardinality(TimersOf(b)) = 1

\* C22: two call sites that acquire the same target share one lock state.
\* Every blokr(T) call returns the handle the cache holds for T, the one
\* every earlier call returned; so in the state right after site A's lock()
\* was accepted, the handle site B gets from blokr(T) is locked, B's lock()
\* returns false, and B's unlock() releases the lock A took.
C22_CallSitesShareOneLock ==
    /\ \A k \in DOMAIN blokrs : issued[k] = {blokrs[k]}
    /\ (last.op = "blokr") =>
          /\ Key(last.target) \in DOMAIN blokrs
          /\ last.ret = blokrs[Key(last.target)]
    /\ (last.op = "lock" /\ last.ret) =>
          \A target \in Opt(Targets) :
             Key(target) = last.self.key =>
                /\ Key(target) \in DOMAIN blokrs
                /\ LET B == blokr(target, blokrs, handles).ret
                       st == Blokr_unlock(B, State)
                   IN /\ B = last.self
                      /\ Blokr_isLocked(handles[B])
                      /\ ~Blokr_lock(B, last.options, State).ret
                      /\ ~Blokr_isLocked(st.handles[last.self])
                      /\ \A i \in DOMAIN st.filters :
                            st.filters[i].self # last.self

\* Site B has called blokr(T) for an element T whose handle is locked (by
\* the lock() of the site that acquired it before) and got that handle.
C22_Witness ==
    /\ last.op = "blokr"
    /\ last.target # Undefined
    /\ IsLocked(last.ret)
    /\ RegisteredOf(last.ret) # {}
    /\ issued[Key(last.target)] = {last.ret}

SingletonLocked == Singleton_isLocked(singleton.blokr)

\* C23: the singleton's lock() always succeeds and adds one to the counter;
\* unlock() takes one off, so that after n lock() calls isLocked() becomes
\* false by unlock() calls on the n-th one and not before: an unlock() step
\* unlocks exactly when the counter was 1, and no step but an unlock() call
\* or the expiry of the timer unlocks.
C23_CounterCountsLocks ==
    /\ [](singleton.blokr._counter < MaxCount => ENABLED SingletonLock)
    /\ [](SingletonLocked <=> singleton.lock._locked)
    /\ [][last'.op = "singleton.lock" =>
            /\ singleton'.blokr._counter = singleton.blokr._counter + 1
            /\ Singleton_isLocked(singleton'.blokr)]_vars
    /\ [][(last'.op = "singleton.unlock" /\ ~last'.abort /\ SingletonLocked) =>
            /\ singleton'.blokr._counter = singleton.blokr._counter - 1
            /\ Singleton_isLocked(singleton'.blokr)
                  <=> singleton.blokr._counter > 1]_vars
    /\ [][(SingletonLocked /\ ~Singleton_isLocked(singleton'.blokr)) =>
            last'.op \in {"singleton.unlock", "singleton.timer"}]_vars

\* The second of two unlock() calls after two lock() calls has unlocked the
\* singleton: the counter was 1 and is 0.
C23_Witness ==
    /\ last.op = "singleton.unlock"
    /\ ~last.abort
    /\ last.counter = 1
    /\ ~SingletonLocked
    /\ ~singleton.lock._locked

\* C24: the singleton's unlock(true) releases the lock from every positive
\* count in one call: afterwards the counter is 0, isLocked() is false, the
\* interceptor is off and no timer is pending; on an unlocked singleton it
\* changes nothing.
C24_AbortReleasesAtOnce ==
    /\ []((last.op = "singleton.unlock" /\ last.abort) =>
            /\ singleton.blokr._counter = 0
            /\ ~SingletonLocked
            /\ ~singleton.lock._locked
            /\ singleton.blokr._timerId = 0
            /\ DOMAIN singleton.timers = {}
            /\ \A target \in Nodes :
                  SingletonHostDispatch("keydown", target, TRUE)
                      = NewEvent("keydown", target, TRUE))
    /\ [][(last'.op = "singleton.unlock" /\ last'.abort /\ ~SingletonLocked) =>
            singleton' = singleton]_vars

\* unlock(true) was called with the counter at 2 and has unlocked the
\* singleton.
C24_Witness ==
    /\ last.op = "singleton.unlock"
    /\ last.abort
    /\ last.counter = 2
    /\ ~SingletonLocked
    /\ DOMAIN singleton.timers = {}

\* C25: the singleton's setTimeout(ms) returns false and leaves the stored
\* timeout (and everything else) unchanged whenever the singleton is locked;
\* when it is unlocked it returns true and stores the value (0 for a
\* negative one), and the next lock() goes by the stored value: it schedules
\* a timer due in that time, or none if it is 0.
C25_SetTimeoutRejectedWhileLocked ==
    /\ [][last'.op = "singleton.setTimeout" =>
            /\ last'.ret = ~SingletonLocked
            /\ SingletonLocked => singleton' = singleton
            /\ ~SingletonLocked =>
                  singleton'.blokr._timeout
                      = (IF last'.timeout < 0 THEN 0 ELSE last'.timeout)]_vars
    /\ [](last.op = "singleton.lock" =>
            IF singleton.blokr._timeout > 0
            THEN /\ singleton.blokr._timerId \in DOMAIN singleton.timers
                 /\ singleton.timers[singleton.blokr._timerId].rem
                       = singleton.blokr._timeout
            ELSE DOMAIN singleton.timers = {})

\* setTimeout() was called on the locked singleton with a value other than
\* the stored one and has returned false.
C25_Witness ==
    /\ last.op = "singleton.setTimeout"
    /\ ~last.ret
    /\ SingletonLocked
    /\ last.timeout # singleton.blokr._timeout
    /\ singleton.blokr._timeout = DefaultTimeout

\* C26: with a stored timeout greater than 0 the singleton's lock cannot
\* stay held forever unless lock() is called again and again: the timer
\* fires, and when it does the counter is set to 0 whatever it was,
\* isLocked() is false, the interceptor is off and events pass again.
C26_TimerReleasesSingleton ==
    /\ [](last.op = "singleton.timer" =>
            /\ singleton.blokr._counter = 0
            /\ ~SingletonLocked
            /\ ~singleton.lock._locked
            /\ singleton.blokr._timerId = 0
            /\ \A target \in Nodes :
                  SingletonHostDispatch("keydown", target, TRUE)
                      = NewEvent("keydown", target, TRUE))
    /\ \/ []<>(~SingletonLocked \/ singleton.blokr._timeout = 0)
       \/ []<><<SingletonLock>>_vars

\* The timer has fired with the counter at 2 and the singleton is unlocked.
C26_Witness ==
    /\ last.op = "singleton.timer"
    /\ last.counter = 2
    /\ ~SingletonLocked
    /\ singleton.blokr._timeout > 0

\* C27: the singleton's counter is never negative; unlock() on the unlocked
\* singleton changes nothing, so a lock() that follows surplus unlock()
\* calls still locks: the counter is 1, isLocked() is true and the
\* interceptor is on.
C27_CounterNeverNegative ==
    /\ [](singleton.blokr._counter >= 0)
    /\ [][(last'.op = "singleton.unlock" /\ ~SingletonLocked) =>
            singleton' = singleton]_vars
    /\ [][(last.op = "singleton.unlock" /\ ~SingletonLocked
             /\ last'.op = "singleton.lock") =>
            /\ singleton'.blokr._counter = 1
            /\ Singleton_isLocked(singleton'.blokr)
            /\ singleton'.lock._locked]_vars

\* unlock() was called on the unlocked singleton: the counter was 0 and is 0.
C27_Witness ==
    /\ last.op = "singleton.unlock"
    /\ ~last.abort
    /\ last.counter = 0
    /\ singleton.blokr._counter = 0
    /\ ~SingletonLocked

\* The event last dispatched in a page with the singleton variant.
SingletonEvent == last.op = "singleton.dispatch"

\* C28: while the singleton is locked every event of the six intercepted
\* types is suppressed whatever its target, the document included; while it
\* is unlocked none is suppressed.
C28_SingletonSuppressesEveryTarget ==
    /\ (SingletonEvent /\ last.evt.type \in SixTypes) =>
          IF SingletonLocked THEN Suppressed ELSE Passed
    /\ \A type \in SixTypes, target \in Nodes :
          LET evt == SingletonHostDispatch(type, target, TRUE) IN
          IF SingletonLocked
          THEN /\ evt.stopImmediatePropagation = 1
               /\ evt.stopPropagation = 1
               /\ evt.preventDefault = 1
          ELSE evt = NewEvent(type, target, TRUE)

\* A keydown at the document was suppressed while the singleton is locked.
C28_Witness ==
    /\ SingletonEvent
    /\ last.evt.type = "keydown"
    /\ last.evt.target = Document
    /\ SingletonLocked
    /\ Suppressed

\* C29: an intercepted event whose target is not an element (the document)
\* is never suppressed, also while the global handle, whose predicate is
\* always true, is locked: it passes untouched to every listener on its way.
C29_NonElementTargetPasses ==
    (Intercepted /\ last.evt.target \notin Elements) =>
        /\ Passed
        /\ Ran = ListenersOnPath(last.evt.target)

\* A keydown at the document has passed while the global handle is locked.
C29_Witness ==
    /\ Intercepted
    /\ last.evt.type = "keydown"
    /\ last.evt.target = Document
    /\ GlobalLocked
    /\ Passed

\* The listeners the interceptor has on the global object for the type.
ListenersFor(type) == {i \in DOMAIN listeners : listeners[i].type = type}

\* C30: in every state, whatever number of handles was locked, unlocked or
\* has expired, the interceptor has exactly one listener for each of the six
\* event types and no other: the ones its constructor installed.
C30_OneListenerPerType ==
    /\ \A type \in SixTypes : Cardinality(ListenersFor(type)) = 1
    /\ Len(listeners) = Cardinality(SixTypes)
    /\ \A i \in DOMAIN listeners : listeners[i].type \in SixTypes

\* The timer of one handle has expired while another handle is locked with
\* a timer pending, and there are six listeners.
C30_Witness ==
    /\ last.op = "timer"
    /\ Len(filters) >= 1
    /\ Cardinality(DOMAIN handles) >= 2
    /\ \E h \in DOMAIN handles : IsLocked(h) /\ handles[h]._timerId # Undefined
    /\ Len(listeners) = 6

(***************************************************************************)
(* C31..C38.                                                               *)
(***************************************************************************)
\* The orders the predicates of the registry can be in: every order in
\* which the handles that are locked may have been locked.
Orders(fs) ==
    {p \in [DOMAIN fs -> DOMAIN fs] : \A i, j \in DOMAIN fs : p[i] = p[j] => i = j}

Reordered(fs, p) == [i \in DOMAIN fs |-> fs[p[i]]]

\* C31: what the listener does to an event does not depend on the order the
\* predicates were registered in: with the registry in any other order, the
\* listener suppresses exactly the same events, whatever their target (the
\* listener does not read the type).
C31_LockOrderIrrelevant ==
    \A p \in Orders(filters), target \in Nodes :
        Lock_listener(Reordered(filters, p), handles, NewEvent("keydown", target, TRUE))
            = Lock_listener(filters, handles, NewEvent("keydown", target, TRUE))

\* Two handles are locked whose predicates disagree on the target of the
\* event just dispatched, and the one registered first lets it pass.
C31_Witness ==
    /\ Intercepted
    /\ Len(filters) >= 2
    /\ last.evt.target \in Elements
    /\ ~FilterApply(filters[1], handles, last.evt.target)
    /\ FilterApply(filters[2], handles, last.evt.target)
    /\ Suppressed

\* C32: in a host without addEventListener the interceptor has no listener;
\* lock(), unlock() and isLocked() keep the registry as they do in a
\* browser (a handle is locked iff its predicate is registered, lock()
\* returns true on an unlocked handle and false on a locked one); and every
\* event dispatched is left as it was, none of the three calls made.
C32_NoListenerHostDegrades ==
    /\ listeners = << >>
    /\ \A h \in DOMAIN handles :
          /\ IsLocked(h) <=> RegisteredOf(h) # {}
          /\ Cardinality(RegisteredOf(h)) <= 1
    /\ last.op = "lock" =>
          /\ IsLocked(last.self)
          /\ last.ret => Get(handles[last.self]._filter) \in Range(filters)
    /\ last.op \in {"unlock", "timer"} =>
          /\ ~IsLocked(last.self)
          /\ RegisteredOf(last.self) = {}
    /\ last.op = "dispatch" =>
          last.evt = NewEvent(last.evt.type, last.evt.target, last.evt.isTrusted)

\* An event of an intercepted type at an element passes while the global
\* handle is locked, in the host without addEventListener.
C32_Witness ==
    /\ listeners = << >>
    /\ last.op = "dispatch"
    /\ last.evt.type = "keydown"
    /\ last.evt.target \in Elements
    /\ last.evt.isTrusted
    /\ GlobalLocked
    /\ last.delivered

\* How often the predicate is in the registry.
Occurrences(fs, filter) == Cardinality({i \in DOMAIN fs : fs[i] = filter})

\* C33: register() of a predicate that is in the registry leaves the
\* registry as it is, and register() of one that is not adds it and keeps
\* the others; the registry holds no predicate twice, so that after
\* unregister() the predicate is not in it, however often it was
\* registered; unregister() keeps every other predicate, and changes
\* nothing if the predicate is not in the registry.
C33_RegisterIdempotent ==
    [][/\ last'.op = "register" =>
            /\ last'.filter \in Range(filters) => filters' = filters
            /\ Range(filters') = Range(filters) \cup {last'.filter}
            /\ Occurrences(filters', last'.filter) = 1
       /\ last'.op = "unregister" =>
            /\ last'.filter \notin Range(filters) => filters' = filters
            /\ Range(filters') = Range(filters) \ {last'.filter}
            /\ \A f \in Range(filters') :
                  Occurrences(filters', f) = Occurrences(filters, f)]_vars

\* A predicate that was registered already has been registered again,
\* beside another one.
C33_Witness ==
    /\ last.op = "register"
    /\ last.present
    /\ Len(filters) = 2
    /\ last.filter \in Range(filters)

LockedHandles == {h \in DOMAIN handles : IsLocked(h)}

\* C34: the registry has as many predicates as there are locked handles, in
\* every state; when no handle is locked it is empty and an event of any
\* type at any node passes.
C34_NoPredicateLeaks ==
    /\ Len(filters) = Cardinality(LockedHandles)
    /\ LockedHandles = {} =>
          /\ filters = << >>
          /\ \A type \in TimedEventTypes, E \in Nodes : PassesNow(type, E)
          /\ last.op = "dispatch" => Passed

\* unlock() was called on a handle that was not locked while another handle
\* is locked: one predicate is registered.
C34_Witness ==
    /\ last.op = "unlock"
    /\ ~last.wasLocked
    /\ Cardinality(LockedHandles) = 1
    /\ Len(filters) = 1

\* C35: a timer is pending for a handle only while the handle is locked;
\* when unlock() has returned or the timer's callback has run, no timer is
\* pending for the handle and the handle holds no timer id.
C35_PendingTimerImpliesLocked ==
    /\ \A h \in DOMAIN handles : TimersOf(h) # {} => IsLocked(h)
    /\ last.op \in {"unlock", "timer"} =>
          /\ TimersOf(last.self) = {}
          /\ handles[last.self]._timerId = Undefined
          /\ ~IsLocked(last.self)

\* The timer of one handle has fired, none is pending for it, and the timer
\* of the other handle is pending.
C35_Witness ==
    /\ last.op = "timer"
    /\ TimersOf(last.self) = {}
    /\ \E h \in DOMAIN handles : h # last.self /\ TimersOf(h) # {} /\ IsLocked(h)

\* The events at E the scope of a lock on the element T covers.
Covers(scope, T, E) ==
    IF scope = "self" THEN E = T
    ELSE IF scope = "outside" THEN ~InSubtree(T, E)
    ELSE InSubtree(T, E)

\* The scope a lock() call asked for.
ScopeAsked(options) ==
    IF options.scope = Undefined THEN "inside" ELSE Get(options.scope)

\* C36: when lock() has returned true, the handle has exactly one predicate
\* in the registry, the one it holds, built with the scope of that call;
\* and if no other handle is locked, the intercepted events at elements
\* that are suppressed are exactly those the scope of that call covers,
\* whatever scope the handle was locked with before.
C36_LockFollowsItsOwnScope ==
    (last.op = "lock" /\ last.ret) =>
        LET h == last.self
            scope == ScopeAsked(last.options)
        IN /\ Cardinality(RegisteredOf(h)) = 1
           /\ \A i \in RegisteredOf(h) :
                 /\ filters[i].scope = scope
                 /\ handles[h]._filter = Some(filters[i])
           /\ (SoleLocked(h) /\ handles[h]._target # Undefined) =>
                 \A E \in Elements :
                     SuppressedNow("keydown", E) <=> Covers(scope, TargetOf(h), E)

\* lock() with scope 'self' has returned true on a handle that unlock() had
\* just released from a lock with scope 'outside'; no other handle is locked.
C36_Witness ==
    /\ last.op = "lock"
    /\ last.ret
    /\ last.released = Some("outside")
    /\ ScopeAsked(last.options) = "self"
    /\ handles[last.self]._target # Undefined
    /\ SoleLocked(last.self)

\* C37: when its timer has fired, a handle is as unlock() leaves it: it
\* holds no predicate and no timer id, none of its predicates is registered
\* and no timer is pending for it.  lock() called next on it returns true
\* and locks it; if that call has no positive timeout, it schedules no
\* timer, and no timer that fires releases a handle that has none pending.
C37_ExpiryLeavesHandleAsUnlock ==
    /\ [](last.op \in {"timer", "unlock"} =>
            /\ handles[last.self] = Blokr_constructor(handles[last.self]._target)
            /\ RegisteredOf(last.self) = {}
            /\ TimersOf(last.self) = {})
    /\ []((last.op = "lock" /\ last.expired) =>
            /\ last.ret
            /\ IsLocked(last.self)
            /\ NonPositiveTimeout(last.options) =>
                  /\ handles[last.self]._timerId = Undefined
                  /\ TimersOf(last.self) = {})
    /\ [][\A h \in DOMAIN handles :
            (IsLocked(h) /\ TimersOf(h) = {} /\ last'.op = "timer")
                => Blokr_isLocked(handles'[h])]_vars

\* The handle whose timer had just fired has been locked again without a
\* timeout, while a timer is pending for the other handle.
C37_Witness ==
    /\ last.op = "lock"
    /\ last.expired
    /\ last.ret
    /\ NonPositiveTimeout(last.options)
    /\ \E h \in DOMAIN handles : h # last.self /\ TimersOf(h) # {}

\* C38: in every state of the counting singleton the interceptor's _locked
\* flag is set if and only if the counter is greater than zero, and a timer
\* is pending, or its id held, only while the counter is greater than zero.
C38_FlagFollowsCounter ==
    /\ singleton.lock._locked <=> singleton.blokr._counter > 0
    /\ DOMAIN singleton.timers # {} => singleton.blokr._counter > 0
    /\ singleton.blokr._timerId # 0 => singleton.blokr._counter > 0

\* unlock() has taken the counter from two to one: the flag is still set
\* and the timer still pending.
C38_Witness ==
    /\ last.op = "singleton.unlock"
    /\ ~last.abort
    /\ last.counter = 2
    /\ singleton.blokr._counter = 1
    /\ singleton.lock._locked
    /\ DOMAIN singleton.timers # {}
====
